---------------------------- MODULE Spec2Model ----------------------------
(***************************************************************************)
(* TimeCare Pool schedule scraper with webcal feed                         *)
(* (src/src/timepool_webcal/timecare_webcal.py).                           *)
(*                                                                         *)
(* The service runs on one asyncio event loop: a coroutine runs without    *)
(* interruption from one `await` to the next.  Every action below is one   *)
(* such uninterrupted stretch of a handler.  scrape_schedule awaits three  *)
(* network calls (login page, login submit, schedule page); everything     *)
(* after the schedule response (parsing, generate_ical, the history copy)  *)
(* contains no await that suspends and is therefore a single action.       *)
(*                                                                         *)
(* `done`, `response` and `net` describe the step just taken: the cycle    *)
(* that ended in it (with the entries it scraped and the file it found),   *)
(* the HTTP response it sent and the network call that was answered in it. *)
(* Every other step resets them.                                           *)
(*                                                                         *)
(* Time is counted in ticks, TicksPerDay ticks to a day.  A datetime is    *)
(* the tick number date * TicksPerDay + clock.                             *)
(***************************************************************************)
EXTENDS Naturals, Integers, Sequences, FiniteSets

VARIABLES
    now,        \* datetime.now(), in ticks
    advances,   \* how often the clock has advanced (bounded by MaxAdvances)
    file,       \* SCHEDULE_FILE (data/schedule.ics)
    snapshot,   \* the most recent data/schedule_<timestamp>.ics history copy
    started,    \* lifespan(): startup scrape finished, scheduler and server running
    pc,         \* per caller of scrape_schedule: the await it is suspended at
    cycles,     \* number of scrape cycles begun since the initial state
                \* (bounded by MaxCycles)
    cycle,      \* per caller: the number of the cycle it runs, 0 when idle
    calls,      \* per caller: the requests its current cycle has issued
    jar,        \* cookies of the shared client: the cycle whose login they
                \* come from, 0 when it holds no session
    done,       \* the scrape cycle that ended in the step just taken, if any
    response,   \* the HTTP response sent in the step just taken, if any
    net         \* the network call answered in the step just taken, if any

vars == <<now, advances, file, snapshot, started, pc, cycles, cycle, calls,
         jar, done, response, net>>

-----------------------------------------------------------------------------
(* Bounds of the model *)

MaxAdvances == 2
MaxCycles == 2
MaxBlocks == 2

\* The clock times a block's time range is built from; the day has as many
\* ticks as there are clock times.
ClockTimes == {0, 1}

TicksPerDay == Cardinality(ClockTimes)

(* Program constants *)

RetentionDays == 90

RetentionTicks == RetentionDays * TicksPerDay

CALENDAR_TOKEN == "token"

Tokens == {CALENDAR_TOKEN, "wrong"}

\* "sched": the startup scrape in lifespan() and the 06:00 cron job;
\* "refresh": a POST /refresh request.
Procs == {"sched", "refresh"}

-----------------------------------------------------------------------------
(* Small sequence helpers *)

Range(s) == {s[i] : i \in 1..Len(s)}

SeqsUpTo(S, n) == UNION {[1..k -> S] : k \in 0..n}

Prefix(s, k) == SubSeq(s, 1, k)

RECURSIVE SelectEvents(_, _)
SelectEvents(s, keepIdx) ==
    IF s = <<>> THEN <<>>
    ELSE LET rest == SelectEvents(Prefix(s, Len(s) - 1), keepIdx)
         IN IF Len(s) \in keepIdx THEN Append(rest, s[Len(s)]) ELSE rest

-----------------------------------------------------------------------------
(* The schedule page: a sequence of shift blocks                           *)
(* (div data-role="collapsible"), each described by what the parser reads. *)

NoUl == -1

\* a day list whose id does not hold a date, and a clock text that is not
\* of the form HH:MM
BadDate == -2
BadClock == -1

DetailsA == <<"", "23 LärKan", "", "", <<>>>>
DetailsB == <<"30", "", "", "77", <<"Vikarie">>>>

\* The bookings a day may show: <<start clock, end clock, details>> with
\* details <<break minutes, location code, address link text, shift id,
\* further text rows>>.
\* Two bookings start at the same time; the third runs past midnight.
Shifts == { <<0, 1, DetailsA>>, <<0, 1, DetailsB>>, <<1, 0, DetailsA>> }

Block(ul, rows, type, sc, ec, sep, det, inline) ==
    [ul |-> ul, rows |-> rows, shiftType |-> type,
     startClock |-> sc, endClock |-> ec, sep |-> sep,
     rast |-> det[1], rastInline |-> inline,
     locationCode |-> det[2], address |-> det[3], shiftId |-> det[4],
     notes |-> det[5]]

\* The blocks a page fetched on day `today` may show.
BookingBlocks(today) ==
    { Block(today, 3, "Bokning", sh[1], sh[2], TRUE, sh[3], FALSE) : sh \in Shifts }

\* An availability placeholder, and a block outside any day list.
OtherBlocks(today) ==
    { Block(today, 3, "Tillgänglighet", 0, 1, TRUE, DetailsA, FALSE),
      Block(NoUl, 3, "Bokning", 0, 1, TRUE, DetailsA, FALSE) }

Blocks(today) == BookingBlocks(today) \cup OtherBlocks(today)

Pages(today) == SeqsUpTo(Blocks(today), MaxBlocks)

\* A booking whose break text stands on the line of the time range
\* ("08:30-16:30 Rast 30", the example of line 215).
BreakOnTimeLine(today) ==
    Block(today, 3, "Bokning", 0, 1, TRUE, DetailsB, TRUE)

\* Blocks the parser cannot read: outside any day list, fewer than three
\* header rows, no "-" in the time range, no date in the list id, a start
\* or an end clock that is not HH:MM.
MalformedBlocks(today) ==
    { Block(NoUl, 3, "Bokning", 0, 1, TRUE, DetailsA, FALSE),
      Block(today, 2, "Bokning", 0, 1, TRUE, DetailsA, FALSE),
      Block(today, 3, "Bokning", 0, 1, FALSE, DetailsA, FALSE),
      Block(BadDate, 3, "Bokning", 0, 1, TRUE, DetailsA, FALSE),
      Block(today, 3, "Bokning", BadClock, 1, TRUE, DetailsA, FALSE),
      Block(today, 3, "Bokning", 0, BadClock, TRUE, DetailsB, FALSE) }

\* Every kind of block the parser distinguishes.
AllBlocks(today) ==
    Blocks(today) \cup MalformedBlocks(today) \cup {BreakOnTimeLine(today)}

AllPages(today) == SeqsUpTo(AllBlocks(today), MaxBlocks)

-----------------------------------------------------------------------------
(* scrape_schedule, lines 182-294: one block to zero or one entry *)

DateTime(date, clock) == date * TicksPerDay + clock

\* " - ".join(description_parts), kept as the sequence of its parts
SummaryOf(b) ==
    <<b.shiftType>>
    \o (IF b.locationCode # "" THEN <<b.locationCode>> ELSE <<>>)
    \o (IF b.rast # "" THEN << <<"Rast", b.rast, "min">> >> ELSE <<>>)

LocationOf(b) ==
    IF b.address # "" THEN b.address ELSE b.locationCode

\* notes_str, kept as the sequence of its lines
NotesOf(b) ==
    b.notes \o (IF b.shiftId # "" THEN << <<"ID:", b.shiftId>> >> ELSE <<>>)

\* lines 226-227: strptime(f"{date_str} {time_str}", "%Y-%m-%d %H:%M")
\* accepts the start and the end text.  The end text is what follows the
\* "-" on the first line of the time range, so break text on that line is
\* part of it and strptime raises ("unconverted data remains").
StartParses(b) == b.ul # BadDate /\ b.startClock \in ClockTimes

EndParses(b) ==
    /\ b.ul # BadDate
    /\ b.endClock \in ClockTimes
    /\ ~(b.rast # "" /\ b.rastInline)

Entry(b) ==
    [start |-> DateTime(b.ul, b.startClock),
     end |-> DateTime(b.ul, b.endClock),
     location |-> LocationOf(b),
     summary |-> SummaryOf(b),
     description |-> NotesOf(b)]

\* (mutation of ParseBlock: the availability filter of lines 208-211 is
\* missing)
ParseBlockWithoutAvailabilityFilter(b) ==
    IF b.ul = NoUl THEN <<>>
    ELSE IF b.rows < 3 THEN <<>>
    ELSE IF ~b.sep THEN <<>>
    ELSE IF ~StartParses(b) \/ ~EndParses(b) THEN <<>>
    ELSE <<Entry(b)>>

ParseBlock(b) ==
    IF b.ul = NoUl THEN <<>>
    ELSE IF b.rows < 3 THEN <<>>
    ELSE IF b.shiftType = "Tillgänglighet" THEN <<>>
    ELSE IF ~b.sep THEN <<>>
    ELSE IF ~StartParses(b) \/ ~EndParses(b) THEN <<>>
    ELSE <<Entry(b)>>

\* (mutation of Extract: the except handler of lines 290-294 ends the loop
\* with `break` instead of `continue`)
RECURSIVE ExtractUntilFirstError(_)
ExtractUntilFirstError(blocks) ==
    IF blocks = <<>> THEN <<>>
    ELSE LET b == Head(blocks)
         IN IF b.ul # NoUl /\ b.rows >= 3 /\ b.shiftType # "Tillgänglighet"
               /\ b.sep /\ (~StartParses(b) \/ ~EndParses(b))
            THEN <<>>
            ELSE ParseBlock(b) \o ExtractUntilFirstError(Tail(blocks))

RECURSIVE Extract(_)
Extract(blocks) ==
    IF blocks = <<>> THEN <<>>
    ELSE ParseBlock(Head(blocks)) \o Extract(Tail(blocks))


-----------------------------------------------------------------------------
(* generate_ical, lines 313-391 *)

\* SCHEDULE_FILE does not exist
Absent == [kind |-> "absent", events |-> <<>>]

\* cal.to_ical() of a calendar holding `events`, written completely
CalendarFile(events) == [kind |-> "calendar", events |-> events]

\* the file after open(..., 'wb') truncated it and the write stopped after
\* the first k events: the closing END:VCALENDAR line is missing
TruncatedFile(events, k) == [kind |-> "truncated", events |-> Prefix(events, k)]

\* line 360: the uid is the start formatted to the second, plus the domain
UidOf(start) == <<start, "@timepool.boras.se">>

\* (mutation of NewEvent: the end is taken from the start)
NewEventEndFromStart(entry, at) ==
    [uid |-> UidOf(entry.start),
     summary |-> entry.summary,
     dtstart |-> entry.start,
     dtend |-> entry.start,
     location |-> IF entry.location # "" THEN <<entry.location>> ELSE <<>>,
     description |-> IF entry.description # <<>> THEN <<entry.description>> ELSE <<>>,
     dtstamp |-> at,
     transp |-> "OPAQUE"]

\* lines 344-367: an optional property is absent (<<>>) or holds one value
NewEvent(entry, at) ==
    [uid |-> UidOf(entry.start),
     summary |-> entry.summary,
     dtstart |-> entry.start,
     dtend |-> entry.end,
     location |-> IF entry.location # "" THEN <<entry.location>> ELSE <<>>,
     description |-> IF entry.description # <<>> THEN <<entry.description>> ELSE <<>>,
     dtstamp |-> at,
     transp |-> "OPAQUE"]

NewEvents(entries, at) == [i \in 1..Len(entries) |-> NewEvent(entries[i], at)]

\* line 362: new_event_uids
NewEventUids(entries) == {UidOf(entries[i].start) : i \in 1..Len(entries)}

\* line 325: existing_events[uid] = component; a uid seen again keeps its
\* place in the dict and takes the later component
PutEvent(d, e) ==
    IF \E i \in 1..Len(d) : d[i].uid = e.uid
    THEN [i \in 1..Len(d) |-> IF d[i].uid = e.uid THEN e ELSE d[i]]
    ELSE Append(d, e)

RECURSIVE WalkEvents(_)
WalkEvents(events) ==
    IF events = <<>> THEN <<>>
    ELSE PutEvent(WalkEvents(Prefix(events, Len(events) - 1)), events[Len(events)])

\* (mutation of LoadExisting: the events of an unclosed calendar are kept)
LoadExistingSalvaging(f) == WalkEvents(f.events)

\* lines 317-328: the file is missing, or Calendar.from_ical raises on a
\* calendar that is not closed (existing_events is filled only after it
\* returned), or every VEVENT is loaded
LoadExisting(f) ==
    IF f.kind = "calendar" THEN WalkEvents(f.events) ELSE <<>>

\* (mutations of KeepOld: no cutoff; an exclusive cutoff; no uid test)
KeepOldWithoutCutoff(old, newUids, cutoff) ==
    old.uid \notin newUids

KeepOldAfterCutoff(old, newUids, cutoff) ==
    old.uid \notin newUids /\ old.dtstart > cutoff

KeepOldWhateverUid(old, newUids, cutoff) ==
    old.dtstart >= cutoff

\* lines 375-380
KeepOld(old, newUids, cutoff) ==
    old.uid \notin newUids /\ old.dtstart >= cutoff

\* lines 371-382
MergedOld(existing, newUids, at) ==
    SelectEvents(existing,
                 {i \in 1..Len(existing) :
                     KeepOld(existing[i], newUids, at - RetentionTicks)})

\* the components of `cal` when line 387 is reached
GenerateIcal(entries, f, at) ==
    NewEvents(entries, at) \o MergedOld(LoadExisting(f), NewEventUids(entries), at)

-----------------------------------------------------------------------------
(* Initial state: the module is loaded (DATA_DIR exists, no schedule file  *)
(* yet) and lifespan() is about to run.                                    *)

NoResponse == [endpoint |-> "none", status |-> 0, body |-> Absent]

NoCycle == [proc |-> "none", how |-> "none", entries |-> <<>>, at |-> 0,
            prev |-> Absent, page |-> <<>>, id |-> 0, calls |-> <<>>,
            returned |-> "none"]

NoReply == [raised |-> FALSE, status |-> 0, onLoginPage |-> FALSE]

NoNet == [proc |-> "none", call |-> "none", reply |-> NoReply,
          issued |-> "none"]

Init ==
    /\ now = 0
    /\ advances = 0
    /\ file = Absent
    /\ snapshot = Absent
    /\ started = FALSE
    /\ pc = [p \in Procs |-> "idle"]
    /\ cycles = 0
    /\ cycle = [p \in Procs |-> 0]
    /\ calls = [p \in Procs |-> <<>>]
    /\ jar = 0
    /\ done = NoCycle
    /\ response = NoResponse
    /\ net = NoNet

Today == now \div TicksPerDay

HttpStatuses == {200, 500}

\* what an awaited client.get / client.post comes back with: an exception,
\* or a response with its status code and whether its final URL contains
\* 'Login.aspx'
Replies == {[raised |-> TRUE, status |-> 0, onLoginPage |-> FALSE]}
           \cup [raised : {FALSE}, status : HttpStatuses, onLoginPage : BOOLEAN]

-----------------------------------------------------------------------------
(* The clock.  A network call times out after 30 seconds (line 46), far    *)
(* less than a tick, so the clock advances only between cycles.            *)

Advance ==
    /\ advances < MaxAdvances
    /\ \A p \in Procs : pc[p] = "idle"
    /\ \E d \in {1, RetentionTicks} : now' = now + d
    /\ advances' = advances + 1
    /\ done' = NoCycle
    /\ response' = NoResponse
    /\ net' = NoNet
    /\ UNCHANGED <<file, snapshot, started, pc, cycles, cycle, calls, jar>>

-----------------------------------------------------------------------------
(* scrape_schedule, lines 147-310 *)

\* a request goes out through the shared client with the cookies it holds
Request(call, cookies) == [call |-> call, cookies |-> cookies]

\* lines 149-153 and 79-80: the cycle starts and awaits the login page
BeginCycle(p) ==
    /\ cycles < MaxCycles
    /\ pc[p] = "idle"
    /\ pc' = [pc EXCEPT ![p] = "login_get"]
    /\ cycles' = cycles + 1
    /\ cycle' = [cycle EXCEPT ![p] = cycles + 1]
    /\ calls' = [calls EXCEPT ![p] = <<Request("login_get", jar)>>]
    /\ done' = NoCycle
    /\ net' = NoNet
    /\ UNCHANGED jar

\* the coroutine issues its next request and is suspended at that await
Await(p, where) ==
    /\ pc' = [pc EXCEPT ![p] = where]
    /\ calls' = [calls EXCEPT ![p] = Append(@, Request(where, jar'))]
    /\ done' = NoCycle
    /\ response' = NoResponse
    /\ UNCHANGED <<started, cycle>>

\* what scrape_schedule hands to its caller: every path ends in a bare
\* `return` or falls off the end of the function (lines 154, 170, 305, 310)
Returned(how) == "None"

\* scrape_schedule returns.  lifespan() starts the scheduler and the server
\* after the startup scrape returned; manual_refresh answers
\* {"status": "refresh triggered"} whatever the cycle did.
EndCycle(p, how, entries, page) ==
    /\ pc' = [pc EXCEPT ![p] = "idle"]
    /\ done' = [proc |-> p, how |-> how, entries |-> entries, at |-> now,
                prev |-> file, page |-> page, id |-> cycle[p],
                calls |-> calls[p], returned |-> Returned(how)]
    /\ cycle' = [cycle EXCEPT ![p] = 0]
    /\ calls' = [calls EXCEPT ![p] = <<>>]
    /\ started' = (started \/ p = "sched")
    /\ response' = IF p = "refresh"
                   THEN [endpoint |-> "refresh", status |-> 200, body |-> Absent]
                   ELSE NoResponse

\* the awaited call of p is answered with r; `issued` is the call p awaits
\* next ("idle": none, the cycle ended)
Answered(p, call, r) ==
    net' = [proc |-> p, call |-> call, reply |-> r, issued |-> pc'[p]]

\* lifespan(), line 53
Startup ==
    /\ ~started
    /\ cycles = 0
    /\ BeginCycle("sched")
    /\ response' = NoResponse
    /\ UNCHANGED <<now, advances, file, snapshot, started>>

\* the 06:00 cron job (line 57); the scheduler runs one instance at a time
CronJob ==
    /\ started
    /\ BeginCycle("sched")
    /\ response' = NoResponse
    /\ UNCHANGED <<now, advances, file, snapshot, started>>

\* manual_refresh, lines 426-433
ManualRefresh(token) ==
    /\ started
    /\ IF token # CALENDAR_TOKEN
       THEN /\ response' = [endpoint |-> "refresh", status |-> 404, body |-> Absent]
            /\ done' = NoCycle
            /\ net' = NoNet
            /\ UNCHANGED <<pc, cycles, cycle, calls, jar>>
       ELSE /\ BeginCycle("refresh")
            /\ response' = NoResponse
    /\ UNCHANGED <<now, advances, file, snapshot, started>>

\* (mutation of LoginPage: the login form is submitted whatever the login
\* page request came back with)
LoginPageThenSubmitAnyway(p, r) ==
    /\ pc[p] = "login_get"
    /\ jar' = jar
    /\ Await(p, "login_post")
    /\ Answered(p, "login_get", r)
    /\ UNCHANGED <<now, advances, file, snapshot, cycles>>

\* login_to_timecare, lines 80-84 and 140-144: the login page arrives
LoginPage(p, r) ==
    /\ pc[p] = "login_get"
    /\ jar' = jar
    /\ IF r.raised \/ r.status # 200
       THEN EndCycle(p, "login_failed", <<>>, <<>>)
       ELSE Await(p, "login_post")
    /\ Answered(p, "login_get", r)
    /\ UNCHANGED <<now, advances, file, snapshot, cycles>>

\* (mutation of LoggedIn: the status code alone decides)
LoggedInByStatusAlone(r) == ~r.raised /\ r.status = 200

\* login_to_timecare, lines 122-138: True is returned for status 200 with a
\* final URL that does not contain 'Login.aspx'
LoggedIn(r) == ~r.raised /\ r.status = 200 /\ ~r.onLoginPage

\* login_to_timecare, lines 110-144, and scrape_schedule, lines 153-166:
\* the login submission is answered; on success the shared client holds
\* the session cookies and the schedule is requested
LoginSubmit(p, r) ==
    /\ pc[p] = "login_post"
    /\ IF LoggedIn(r)
       THEN /\ jar' = cycle[p]
            /\ Await(p, "schedule_get")
       ELSE /\ jar' = jar
            /\ EndCycle(p, "login_failed", <<>>, <<>>)
    /\ Answered(p, "login_post", r)
    /\ UNCHANGED <<now, advances, file, snapshot, cycles>>

\* (mutation of FetchFails: no return after the failed fetch, the error page
\* is parsed to zero shifts and merged)
FetchFailsWithoutReturn(p) ==
    /\ file' = CalendarFile(GenerateIcal(<<>>, file, now))
    /\ snapshot' = file'
    /\ EndCycle(p, "fetch_failed", <<>>, <<>>)

\* scrape_schedule, lines 168-170 and 307-310: the schedule fetch fails
FetchFails(p) ==
    /\ EndCycle(p, "fetch_failed", <<>>, <<>>)
    /\ UNCHANGED <<file, snapshot>>

\* How line 387-388 can end.  "written": open, to_ical and write succeed;
\* "open_failed": open(SCHEDULE_FILE, 'wb') raises, nothing is touched;
\* "write_failed": open truncated the file and to_ical or write raises
\* after `upto` events.
WriteOutcomes(events) ==
    {[how |-> "written", upto |-> Len(events)],
     [how |-> "open_failed", upto |-> 0]}
    \cup {[how |-> "write_failed", upto |-> k] : k \in 0..Len(events)}

\* (mutation of MergeAndWrite: the merge is computed from a previous
\* document read before the cycles began, not from the one on disk when the
\* file is rewritten)
MergeAndWriteFromEarlierRead(p, page) ==
    LET entries == Extract(page)
        events == GenerateIcal(entries, Absent, now)
    IN \E w \in WriteOutcomes(events) :
          /\ file' = CASE w.how = "written" -> CalendarFile(events)
                       [] w.how = "open_failed" -> file
                       [] w.how = "write_failed" -> TruncatedFile(events, w.upto)
          /\ snapshot' = IF w.how = "written" THEN file' ELSE snapshot
          /\ EndCycle(p, w.how, entries, page)

\* scrape_schedule, lines 173-305, with generate_ical (lines 313-391):
\* the page is parsed and merged, the file is rewritten in place, and after
\* a successful write the history copy is made.  An exception of the write
\* ends in line 307.
MergeAndWrite(p, page) ==
    LET entries == Extract(page)
        events == GenerateIcal(entries, file, now)
    IN \E w \in WriteOutcomes(events) :
          /\ file' = CASE w.how = "written" -> CalendarFile(events)
                       [] w.how = "open_failed" -> file
                       [] w.how = "write_failed" -> TruncatedFile(events, w.upto)
          /\ snapshot' = IF w.how = "written" THEN file' ELSE snapshot
          /\ EndCycle(p, w.how, entries, page)

\* the schedule page request is answered with r, showing `page`
Fetched(p, r, page) ==
    /\ pc[p] = "schedule_get"
    /\ IF r.raised \/ r.status # 200
       THEN FetchFails(p)
       ELSE MergeAndWrite(p, page)
    /\ Answered(p, "schedule_get", r)
    /\ UNCHANGED <<now, advances, cycles, jar>>

Schedule(p, r) == \E page \in Pages(Today) : Fetched(p, r, page)

-----------------------------------------------------------------------------
(* get_calendar, lines 404-423 *)

GetCalendar(token) ==
    /\ started
    /\ response' =
         IF token # CALENDAR_TOKEN
         THEN [endpoint |-> "calendar", status |-> 404, body |-> Absent]
         ELSE IF file.kind = "absent"
         THEN [endpoint |-> "calendar", status |-> 503, body |-> Absent]
         ELSE [endpoint |-> "calendar", status |-> 200, body |-> file]
    /\ done' = NoCycle
    /\ net' = NoNet
    /\ UNCHANGED <<now, advances, file, snapshot, started, pc, cycles, cycle,
                   calls, jar>>

-----------------------------------------------------------------------------

Next ==
    \/ Advance
    \/ Startup
    \/ CronJob
    \/ \E token \in Tokens : ManualRefresh(token)
    \/ \E p \in Procs, r \in Replies : LoginPage(p, r)
    \/ \E p \in Procs, r \in Replies : LoginSubmit(p, r)
    \/ \E p \in Procs, r \in Replies : Schedule(p, r)
    \/ \E token \in Tokens : GetCalendar(token)

Spec == Init /\ [][Next]_vars

-----------------------------------------------------------------------------
(* The running service.  The startup scrape has returned without logging   *)
(* in (no file, no session), the scheduler and the server are running, a   *)
(* reader has been told that no schedule is available yet, and `cycles`    *)
(* counts from here: the cron job and /refresh can each begin a cycle      *)
(* while the other's is suspended at a network call.  The cycles run       *)
(* within one tick of the clock.                                           *)

InitServing ==
    /\ now = 0
    /\ advances = 0
    /\ file = Absent
    /\ snapshot = Absent
    /\ started = TRUE
    /\ pc = [p \in Procs |-> "idle"]
    /\ cycles = 0
    /\ cycle = [p \in Procs |-> 0]
    /\ calls = [p \in Procs |-> <<>>]
    /\ jar = 0
    /\ done = NoCycle
    /\ response = [endpoint |-> "calendar", status |-> 503, body |-> Absent]
    /\ net = NoNet

NextServing ==
    \/ CronJob
    \/ \E token \in Tokens : ManualRefresh(token)
    \/ \E p \in Procs, r \in Replies : LoginPage(p, r)
    \/ \E p \in Procs, r \in Replies : LoginSubmit(p, r)
    \/ \E p \in Procs, r \in Replies : Schedule(p, r)
    \/ \E token \in Tokens : GetCalendar(token)

SpecServing == InitServing /\ [][NextServing]_vars

-----------------------------------------------------------------------------
(* The extractor on every kind of block.  The startup scrape has logged in *)
(* and awaits the schedule page; the page may show any block kind.         *)

InitExtract ==
    /\ now = 0
    /\ advances = 0
    /\ file = Absent
    /\ snapshot = Absent
    /\ started = FALSE
    /\ pc = [p \in Procs |-> IF p = "sched" THEN "schedule_get" ELSE "idle"]
    /\ cycles = 1
    /\ cycle = [p \in Procs |-> IF p = "sched" THEN 1 ELSE 0]
    /\ calls = [p \in Procs |->
                  IF p = "sched"
                  THEN <<Request("login_get", 0), Request("login_post", 0),
                         Request("schedule_get", 1)>>
                  ELSE <<>>]
    /\ jar = 1
    /\ done = NoCycle
    /\ response = NoResponse
    /\ net \in {[proc |-> "sched", call |-> "login_post", reply |-> r,
                 issued |-> "schedule_get"] : r \in {x \in Replies : LoggedIn(x)}}

NextExtract ==
    \E r \in Replies, page \in AllPages(Today) : Fetched("sched", r, page)

SpecExtract == InitExtract /\ [][NextExtract]_vars

-----------------------------------------------------------------------------
(* Views used by the properties *)

\* The shift record an event of the calendar carries: an absent optional
\* property reads as the empty value.
RecordOf(e) ==
    [start |-> e.dtstart,
     end |-> e.dtend,
     location |-> IF e.location = <<>> THEN "" ELSE e.location[1],
     summary |-> e.summary,
     description |-> IF e.description = <<>> THEN <<>> ELSE e.description[1]]

\* The identity key of a record
KeyOf(rec) == UidOf(rec.start)

\* The events of file f filed under uid
EventsWithUid(f, uid) == {j \in 1..Len(f.events) : f.events[j].uid = uid}

DistinctKeys(entries) ==
    \A i, j \in 1..Len(entries) :
        entries[i].start = entries[j].start => i = j

\* A reconciliation has just been completed and written
Reconciled == done.how = "written"

\* The events of the previous document that the new scrape does not define
PreviousOnly ==
    {e \in Range(LoadExisting(done.prev)) : e.uid \notin NewEventUids(done.entries)}

-----------------------------------------------------------------------------
(* C1: after a reconciliation the document holds every new record exactly  *)
(* once under its identity key, and the record found under a key the new   *)
(* scrape defines is the new one.                                          *)
C1_NewRecordsExactlyOnce ==
    Reconciled =>
        \A i \in 1..Len(done.entries) :
            LET hits == EventsWithUid(file, KeyOf(done.entries[i]))
            IN /\ Cardinality(hits) = 1
               /\ \A j \in hits : RecordOf(file.events[j]) = done.entries[i]

(* C2: in every reachable state the persisted calendar holds at most one   *)
(* record per identity key.                                                *)
C2_AtMostOneRecordPerKey ==
    \A i, j \in 1..Len(file.events) :
        file.events[i].uid = file.events[j].uid => i = j

(* C3: after a completed reconciliation every record of the written        *)
(* document is a record of the scrape just reconciled or starts on or      *)
(* after the reconciliation time minus the retention window.               *)
C3_NewOrWithinRetention ==
    Reconciled =>
        \A e \in Range(file.events) :
            \/ \E i \in 1..Len(done.entries) : e = NewEvent(done.entries[i], done.at)
            \/ e.dtstart >= done.at - RetentionTicks

C3_Witness ==
    /\ Reconciled
    /\ \E e \in PreviousOnly : e.dtstart < done.at - RetentionTicks
    /\ \E e \in PreviousOnly : e \in Range(file.events)
    /\ done.entries # <<>>

(* C4: the retention bound is inclusive: a record only the previous        *)
(* document holds is kept when its start is exactly now - W and dropped    *)
(* when its start is one tick earlier.                                     *)
C4_InclusiveRetentionBound ==
    Reconciled =>
        \A e \in PreviousOnly :
            /\ e.dtstart = done.at - RetentionTicks => e \in Range(file.events)
            /\ e.dtstart = done.at - RetentionTicks - 1 => e \notin Range(file.events)

C4_Witness ==
    /\ Reconciled
    /\ \E e \in PreviousOnly : e.dtstart = done.at - RetentionTicks
    /\ \E e \in PreviousOnly : e.dtstart = done.at - RetentionTicks - 1

(* C5: reconciling the records R against the document that reconciling R   *)
(* against the empty document produced at an earlier or equal time gives   *)
(* the same keyed records: the document does not grow.                     *)
KeyedRecords(f) == {<<e.uid, RecordOf(e)>> : e \in Range(f.events)}

FirstReconcileOf(entries, f, upTo) ==
    \E t0 \in 0..upTo : f = CalendarFile(GenerateIcal(entries, Absent, t0))

C5_Idempotent ==
    (Reconciled /\ FirstReconcileOf(done.entries, done.prev, done.at)) =>
        /\ KeyedRecords(file) = KeyedRecords(done.prev)
        /\ Len(file.events) = Len(done.prev.events)

C5_Witness ==
    /\ Reconciled
    /\ FirstReconcileOf(done.entries, done.prev, done.at)
    /\ Len(done.entries) > 1
    /\ file # done.prev

C7_UndecodablePreviousIsEmpty ==
    (Reconciled /\ done.prev.kind # "calendar") =>
        file = CalendarFile(NewEvents(done.entries, done.at))

C7_Witness ==
    /\ Reconciled
    /\ done.prev.kind = "truncated"
    /\ done.prev.events # <<>>
    /\ done.entries # <<>>

(* C8: a cycle that fails at the login or at the schedule fetch leaves the *)
(* persisted document exactly as it was.                                   *)
C8_FailedCycleLeavesFile ==
    done.how \in {"login_failed", "fetch_failed"} => file = done.prev

C8_Witness ==
    /\ done.how = "fetch_failed"
    /\ file.kind = "calendar"
    /\ file.events # <<>>

(* C9: after any cycle the persisted document is the complete newly        *)
(* reconciled document or exactly the previous document.                   *)
C9_WriteAllOrNothing ==
    done.proc # "none" =>
        \/ file = done.prev
        \/ done.how = "written" /\ file.kind = "calendar"

(* C10: a reader of the feed always receives a complete document, never a  *)
(* partially written one.                                                  *)
C10_ReaderSeesCompleteDocument ==
    (response.endpoint = "calendar" /\ response.status = 200) =>
        response.body.kind = "calendar"

-----------------------------------------------------------------------------
(* C11: scrape cycles never overlap: at most one caller of scrape_schedule  *)
(* is between the start and the end of a cycle at any time.                 *)
InFlight == {p \in Procs : pc[p] # "idle"}

C11_CyclesNeverOverlap == Cardinality(InFlight) <= 1

(* C12: scrape_schedule reports its outcome to its caller: a cycle that     *)
(* failed at authentication, at the fetch or at persisting the document     *)
(* returns something different from what a successful cycle returns, and    *)
(* the /refresh caller is not answered as after a successful cycle.         *)
FailedHows == {"login_failed", "fetch_failed", "open_failed", "write_failed"}

C12_FailureIsReported ==
    done.how \in FailedHows =>
        /\ done.returned # Returned("written")
        /\ done.proc = "refresh" => response.status # 200

-----------------------------------------------------------------------------
(* Views of the login submission answered in the step just taken *)
LoginAnswered == net.call = "login_post" /\ ~net.reply.raised

\* the login returned True: the schedule is requested with the session
SessionGranted == net.issued = "schedule_get" /\ jar = cycle[net.proc]

\* the login returned False: the cycle ended without a schedule request
AuthFailure == net.issued = "idle" /\ done.how = "login_failed"

(* C13, as stated: the final URL of the login submission alone decides: a   *)
(* response whose final URL still points to the login page yields an        *)
(* authentication failure, a response whose final URL differs yields a      *)
(* usable session.                                                          *)
C13_DecidedByFinalUrl ==
    LoginAnswered =>
        /\ net.reply.onLoginPage => AuthFailure
        /\ ~net.reply.onLoginPage => SessionGranted

(* C13, amended: status and final URL decide together: a response with      *)
(* status 200 whose final URL does not point to the login page yields a     *)
(* usable session; a response whose final URL still points to the login     *)
(* page, or whose status is not 200, yields an authentication failure.      *)
C13_DecidedByStatusAndFinalUrl ==
    LoginAnswered =>
        /\ (net.reply.status = 200 /\ ~net.reply.onLoginPage) => SessionGranted
        /\ (net.reply.status # 200 \/ net.reply.onLoginPage) => AuthFailure

\* a status-200 response still showing the login page was taken as a failure
C13_Witness ==
    /\ LoginAnswered
    /\ net.reply.status = 200
    /\ net.reply.onLoginPage
    /\ AuthFailure

-----------------------------------------------------------------------------
(* Views of the extraction done in the step just taken *)

\* the schedule page arrived and was parsed; generate_ical was called
Extracted == done.how \in {"written", "open_failed", "write_failed"}

IsAvailability(b) == b.shiftType = "Tillgänglighet"

NotAvailability(b) == ~IsAvailability(b)

\* a block of the kinds named malformed: no day container id, fewer than
\* three header rows, no time separator, unparsable date or time
Malformed(b) ==
    \/ b.ul = NoUl
    \/ b.rows < 3
    \/ ~b.sep
    \/ b.ul = BadDate
    \/ ~StartParses(b)
    \/ ~EndParses(b)

WellFormedBooking(b) == ~Malformed(b) /\ ~IsAvailability(b)

\* entry e carries what block b shows
EntryOfBlock(e, b) ==
    /\ e.start = DateTime(b.ul, b.startClock)
    /\ e.end = DateTime(b.ul, b.endClock)
    /\ e.summary[1] = b.shiftType
    /\ e.location = (IF b.address # "" THEN b.address ELSE b.locationCode)

\* the entries are those of the blocks, one each and in their order
EntriesOfBlocks(entries, blocks) ==
    /\ Len(entries) = Len(blocks)
    /\ \A i \in 1..Len(blocks) : EntryOfBlock(entries[i], blocks[i])

C15_BreakAnnotationRecovered ==
    Extracted =>
        \A i \in 1..Len(done.page) :
            LET b == done.page[i]
            IN (b.rast # "" /\ b.rastInline /\ b.rows >= 3 /\ b.sep
                  /\ StartParses(b) /\ b.endClock \in ClockTimes
                  /\ ~IsAvailability(b))
               => \E j \in 1..Len(done.entries) :
                     /\ EntryOfBlock(done.entries[j], b)
                     /\ <<"Rast", b.rast, "min">> \in Range(done.entries[j].summary)

(* C16: per-block failures are isolated: a malformed block is omitted and   *)
(* never aborts the batch, so the emitted records are exactly those of the  *)
(* well-formed booking blocks, in their order, and the cycle proceeds to    *)
(* reconcile and write.                                                     *)
PageReceived ==
    net.call = "schedule_get" /\ ~net.reply.raised /\ net.reply.status = 200

C17_StartBeforeEnd ==
    /\ \A i \in 1..Len(done.entries) :
           done.entries[i].start < done.entries[i].end
    /\ file.kind = "calendar" =>
           \A j \in 1..Len(file.events) :
               file.events[j].dtstart < file.events[j].dtend

-----------------------------------------------------------------------------
(* C18: within one cycle the network calls are issued in the order          *)
(* login-page fetch, login submit, schedule fetch, each at most once, and a *)
(* later call is issued only after the earlier one succeeded: no login      *)
(* submit after a failed login-page fetch, no schedule fetch after a failed *)
(* login.                                                                   *)
CallOrder == <<"login_get", "login_post", "schedule_get">>

\* the calls of the requests reqs are the first Len(reqs) of CallOrder
InCallOrder(reqs) ==
    /\ Len(reqs) <= Len(CallOrder)
    /\ \A i \in 1..Len(reqs) : reqs[i].call = CallOrder[i]

C18_CallsInOrderOnce ==
    /\ \A p \in Procs : InCallOrder(calls[p])
    /\ \A p \in Procs : pc[p] # "idle" => calls[p][Len(calls[p])].call = pc[p]
    /\ InCallOrder(done.calls)
    /\ net.issued = "login_post" =>
           net.call = "login_get" /\ ~net.reply.raised /\ net.reply.status = 200
    /\ net.issued = "schedule_get" =>
           /\ net.call = "login_post"
           /\ ~net.reply.raised
           /\ net.reply.status = 200
           /\ ~net.reply.onLoginPage
    /\ net.call = "schedule_get" => net.issued = "idle"

\* a cycle ended at a rejected login, having fetched the login page and
\* submitted the form once each and nothing else
C18_Witness ==
    /\ net.call = "login_post"
    /\ net.reply.onLoginPage
    /\ done.how = "login_failed"
    /\ Len(done.calls) = 2
    /\ InCallOrder(done.calls)

(* C19: the authenticated session belongs to exactly one scrape cycle: the  *)
(* cookies a cycle's login established are discarded when that cycle ends,  *)
(* and no request of a later cycle or of a concurrently running cycle       *)
(* carries them.                                                            *)
C19_SessionOwnedByOneCycle ==
    /\ jar # 0 => \E p \in Procs : cycle[p] = jar
    /\ \A p \in Procs : \A i \in 1..Len(calls[p]) :
           calls[p][i].cookies \in {0, cycle[p]}

(* C20: a record of the persisted document whose start is on or after       *)
(* now - 90 days is not removed by a successful cycle that does not         *)
(* re-scrape its key (a cancelled shift, a scrape of zero records).         *)
C20_KeptUntilExpired ==
    (Reconciled /\ done.prev.kind = "calendar") =>
        \A i \in 1..Len(done.prev.events) :
            LET e == done.prev.events[i]
            IN (e.dtstart >= done.at - RetentionTicks
                  /\ e.uid \notin NewEventUids(done.entries))
               => e \in Range(file.events)

-----------------------------------------------------------------------------
(* C21: generate_ical has no suspension point, so the merge steps of two    *)
(* cycles in flight at once never interleave: every step that rewrites the  *)
(* document writes the reconciliation of the cycle's entries with the       *)
(* document as it stands immediately before that step, so the document      *)
(* after both cycles is the result of their reconciliations applied one     *)
(* after the other, and no merge is computed from a document that another   *)
(* cycle has overwritten since (no lost update).                            *)
C21_MergeFromCurrentDocument ==
    [][ done'.how = "written" =>
            file' = CalendarFile(GenerateIcal(done'.entries, file, now)) ]_vars

\* cycle 1 was suspended while cycle 2 began, wrote the document and ended;
\* cycle 1 then merged its own entries into what cycle 2 had written, and a
\* record of cycle 2 that cycle 1 did not scrape is still in the document
C21_Witness ==
    /\ Reconciled
    /\ done.id = 1
    /\ cycles = 2
    /\ \A p \in Procs : pc[p] = "idle"
    /\ done.entries # <<>>
    /\ done.prev.kind = "calendar"
    /\ \E i \in 1..Len(done.prev.events) :
           /\ done.prev.events[i].uid \notin NewEventUids(done.entries)
           /\ done.prev.events[i] \in Range(file.events)

=============================================================================
